---- MODULE Spec2Model ----
(***************************************************************************)
(* Model of ratioin.py: the per-ticker fetch threads and their queue, the  *)
(* ratio calculator, the benchmark aggregator and the comparison loop of   *)
(* the request handler index().                                            *)
(*                                                                         *)
(* Numbers are exact rationals <<n, d>> with d > 0 in lowest terms; the    *)
(* rounding of Python's floats and the f-string rendering of a number are  *)
(* not modelled.  Python's None is the empty tuple.  A dict whose order    *)
(* matters (a ratio dict) is the sequence of its <<key, value>> pairs in   *)
(* insertion order; a dict read only by key is a function.                 *)
(***************************************************************************)
EXTENDS Integers, Sequences, FiniteSets, TLC

VARIABLES
    pc,                     \* position of the handler (or of the driver of a pure function)
    inputs,                 \* the data dicts handed to calculate_ratios by the function driver
    ticker,                 \* request.form.get('ticker')
    competitor_tickers,     \* request.form.getlist('competitors')
    threads,                \* per thread of index(): "unstarted", "running" or "done"
    joined,                 \* how many threads the join loop has joined
    data_queue,             \* queue.Queue() of result items
    all_data,               \* dict built by all_data.update(item)
    errors,                 \* list of the error messages collected
    company_ratios,         \* calculate_ratios(company_data)
    competitor_ratios_list, \* the peers' ratio dicts
    benchmarks,             \* calculate_benchmark_averages(...)
    analysis_list,          \* the rows of the comparison
    results                 \* what the handler renders: an error or the analysis

vars == <<pc, inputs, ticker, competitor_tickers, threads, joined, data_queue,
          all_data, errors, company_ratios, competitor_ratios_list, benchmarks,
          analysis_list, results>>

----------------------------------------------------------------------------
(* Bounds *)

\* longest competitor list of a request, and longest list given to the aggregator
MaxPeers == 2

----------------------------------------------------------------------------
(* Python values *)

None == <<>>

\* what an operation yields when Python raises instead of returning
ZeroDivisionError == <<"ZeroDivisionError">>
TypeError == <<"TypeError">>

IsError(x) == x = ZeroDivisionError \/ x = TypeError

IsNumber(x) == x # None /\ ~IsError(x)

Abs(n) == IF n < 0 THEN -n ELSE n

RECURSIVE Gcd(_, _)
Gcd(a, b) == IF b = 0 THEN a ELSE Gcd(b, a % b)

\* the rational n/d (d # 0) in lowest terms with a positive denominator
Norm(n, d) ==
    LET g == Gcd(Abs(n), Abs(d))
        s == IF d < 0 THEN -1 ELSE 1
    IN <<(s * n) \div g, (s * d) \div g>>

Num(n) == <<n, 1>>

\* x == 0
IsZero(x) == x[1] = 0

\* x + y, x - y, x * y, x / y as Python evaluates them on numbers and None
Add(x, y) ==
    IF x = None \/ y = None THEN TypeError
    ELSE Norm(x[1] * y[2] + y[1] * x[2], x[2] * y[2])

Sub(x, y) ==
    IF x = None \/ y = None THEN TypeError
    ELSE Norm(x[1] * y[2] - y[1] * x[2], x[2] * y[2])

Mul(x, y) ==
    IF x = None \/ y = None THEN TypeError
    ELSE Norm(x[1] * y[1], x[2] * y[2])

Div(x, y) ==
    IF x = None \/ y = None THEN TypeError
    ELSE IF IsZero(y) THEN ZeroDivisionError
    ELSE Norm(x[1] * y[2], x[2] * y[1])

\* x < y, x > y on numbers
Less(x, y) == x[1] * y[2] < y[1] * x[2]
Greater(x, y) == Less(y, x)

\* abs(x)
AbsNum(x) == <<Abs(x[1]), x[2]>>

\* x or 0
OrZero(x) == IF x = None \/ IsZero(x) THEN Num(0) ELSE x

\* d.get(k) of a dict read by key
Get(d, k) == IF k \in DOMAIN d THEN d[k] ELSE None

\* d.keys() and d.get(k) of an insertion-ordered dict
Keys(d) == [i \in 1..Len(d) |-> d[i][1]]
DGet(d, k) ==
    IF \E i \in 1..Len(d) : d[i][1] = k
    THEN d[CHOOSE i \in 1..Len(d) : d[i][1] = k][2]
    ELSE None

Range(s) == {s[i] : i \in 1..Len(s)}

\* sum(values): the left fold from 0
RECURSIVE Sum(_)
Sum(values) ==
    IF values = <<>> THEN Num(0)
    ELSE Add(Sum(SubSeq(values, 1, Len(values) - 1)), values[Len(values)])

----------------------------------------------------------------------------
(* Configuration *)

\* the direction policy: "True", "False" or "None" per ratio
HIGHER_IS_BETTER ==
    [current_ratio |-> "True", quick_ratio |-> "True", debt_to_equity |-> "False",
     debt_to_assets |-> "False", interest_coverage |-> "True",
     gross_profit_margin |-> "True", net_profit_margin |-> "True", roe |-> "True",
     roa |-> "True", asset_turnover |-> "True",
     pe_ratio |-> "None", ev_to_ebitda |-> "None", price_to_book |-> "None"]

----------------------------------------------------------------------------
(* calculate_ratios *)

\* line 120 without the test for zero
safe_divide_no_zero_check(num, den) ==
    IF den = None \/ num = None THEN None ELSE Div(num, den)

\* line 120
safe_divide(num, den) ==
    IF den = None \/ IsZero(den) \/ num = None THEN None ELSE Div(num, den)

\* lines 116-137 without the two ratios computed from an intermediate sum
calculate_ratios_dropping_keys(data) ==
    IF data = None \/ DOMAIN data = {} THEN <<>>
    ELSE <<
      <<"current_ratio", safe_divide(Get(data, "current_assets"), Get(data, "current_liabilities"))>>,
      <<"debt_to_equity", safe_divide(Get(data, "total_debt"), Get(data, "total_equity"))>>,
      <<"debt_to_assets", safe_divide(Get(data, "total_debt"), Get(data, "total_assets"))>>,
      <<"interest_coverage", safe_divide(Get(data, "ebit"), Get(data, "interest_expense"))>>,
      <<"gross_profit_margin", safe_divide(Get(data, "gross_profit"), Get(data, "total_revenue"))>>,
      <<"net_profit_margin", safe_divide(Get(data, "net_income"), Get(data, "total_revenue"))>>,
      <<"roe", safe_divide(Get(data, "net_income"), Get(data, "avg_total_equity"))>>,
      <<"roa", safe_divide(Get(data, "net_income"), Get(data, "avg_total_assets"))>>,
      <<"asset_turnover", safe_divide(Get(data, "total_revenue"), Get(data, "avg_total_assets"))>>,
      <<"pe_ratio", safe_divide(Get(data, "current_share_price"), Get(data, "eps"))>>,
      <<"price_to_book", safe_divide(Get(data, "current_share_price"), Get(data, "book_value_per_share"))>>
    >>

\* lines 116-137
calculate_ratios(data) ==
    IF data = None \/ DOMAIN data = {} THEN <<>>
    ELSE
      LET quick_assets ==
              Sub(OrZero(Get(data, "current_assets")), OrZero(Get(data, "inventory")))
          enterprise_value ==
              Sub(Add(OrZero(Get(data, "market_cap")), OrZero(Get(data, "total_debt"))),
                  OrZero(Get(data, "cash")))
      IN <<
      <<"current_ratio", safe_divide(Get(data, "current_assets"), Get(data, "current_liabilities"))>>,
      <<"quick_ratio", safe_divide(quick_assets, Get(data, "current_liabilities"))>>,
      <<"debt_to_equity", safe_divide(Get(data, "total_debt"), Get(data, "total_equity"))>>,
      <<"debt_to_assets", safe_divide(Get(data, "total_debt"), Get(data, "total_assets"))>>,
      <<"interest_coverage", safe_divide(Get(data, "ebit"), Get(data, "interest_expense"))>>,
      <<"gross_profit_margin", safe_divide(Get(data, "gross_profit"), Get(data, "total_revenue"))>>,
      <<"net_profit_margin", safe_divide(Get(data, "net_income"), Get(data, "total_revenue"))>>,
      <<"roe", safe_divide(Get(data, "net_income"), Get(data, "avg_total_equity"))>>,
      <<"roa", safe_divide(Get(data, "net_income"), Get(data, "avg_total_assets"))>>,
      <<"asset_turnover", safe_divide(Get(data, "total_revenue"), Get(data, "avg_total_assets"))>>,
      <<"pe_ratio", safe_divide(Get(data, "current_share_price"), Get(data, "eps"))>>,
      <<"ev_to_ebitda", safe_divide(enterprise_value, Get(data, "ebitda"))>>,
      <<"price_to_book", safe_divide(Get(data, "current_share_price"), Get(data, "book_value_per_share"))>>
    >>

----------------------------------------------------------------------------
(* calculate_benchmark_averages *)

\* [ratios[name] for ratios in competitor_ratios_list if ratios.get(name) is not None]
RECURSIVE valid_values(_, _)
valid_values(list, name) ==
    IF list = <<>> THEN <<>>
    ELSE LET rest == valid_values(SubSeq(list, 1, Len(list) - 1), name)
             last == list[Len(list)]
         IN IF DGet(last, name) # None THEN Append(rest, DGet(last, name)) ELSE rest

\* line 146 dividing by the number of peers
average_counting_all(list, name) ==
    LET vv == valid_values(list, name)
    IN IF vv # <<>> THEN Div(Sum(vv), Num(Len(list))) ELSE None

\* line 146: sum(valid_values) / len(valid_values) if valid_values else None
average(list, name) ==
    LET vv == valid_values(list, name)
    IN IF vv # <<>> THEN Div(Sum(vv), Num(Len(vv))) ELSE None

\* lines 139-147
calculate_benchmark_averages(list) ==
    IF list = <<>> THEN <<>>
    ELSE LET all_ratio_names == Keys(list[1])
         IN [i \in 1..Len(all_ratio_names) |->
                <<all_ratio_names[i], average(list, all_ratio_names[i])>>]

----------------------------------------------------------------------------
(* get_financial_data *)

\* d.get(k, default)
GetDefault(d, k, default) == IF k \in DOMAIN d THEN d[k] ELSE default

\* x or y
Or(x, y) == IF x = None \/ IsZero(x) THEN y ELSE x

\* the dict of lines 99-110, from the provider's answer
BuildData(info, balance_sheet, income_stmt) ==
    LET bs_curr == balance_sheet[1]
        bs_prev == balance_sheet[2]
        is_curr == income_stmt[1]
    IN [current_assets |-> Get(bs_curr, "Current Assets"),
        current_liabilities |-> Get(bs_curr, "Current Liabilities"),
        inventory |-> Get(bs_curr, "Inventory"),
        total_debt |-> Get(bs_curr, "Total Debt"),
        total_equity |-> Get(bs_curr, "Stockholders Equity"),
        cash |-> Get(bs_curr, "Cash And Cash Equivalents"),
        total_assets |-> Get(bs_curr, "Total Assets"),
        total_revenue |-> Get(is_curr, "Total Revenue"),
        gross_profit |-> Get(is_curr, "Gross Profit"),
        ebit |-> Get(is_curr, "EBIT"),
        ebitda |-> Get(info, "ebitda"),
        interest_expense |-> Get(is_curr, "Interest Expense"),
        net_income |-> Get(is_curr, "Net Income"),
        avg_total_assets |->
            Div(Add(GetDefault(bs_curr, "Total Assets", Num(0)),
                    GetDefault(bs_prev, "Total Assets", Num(0))), Num(2)),
        avg_total_equity |->
            Div(Add(GetDefault(bs_curr, "Stockholders Equity", Num(0)),
                    GetDefault(bs_prev, "Stockholders Equity", Num(0))), Num(2)),
        current_share_price |-> Or(Get(info, "currentPrice"), Get(info, "previousClose")),
        eps |-> Get(info, "trailingEps"),
        market_cap |-> Get(info, "marketCap"),
        book_value_per_share |-> Get(info, "bookValue")]

\* the item of a failed fetch: {ticker_symbol: None, 'error': message}
ErrorItem(ticker_symbol, message) ==
    ("error" :> <<message, ticker_symbol>>) @@ (ticker_symbol :> None)

\* DataFrame.empty: no column, or no row
Empty(frame) == frame = <<>> \/ DOMAIN frame[1] = {}

\* the item get_financial_data puts into the queue, for the provider's answer
get_financial_data(ticker_symbol, answer) ==
    IF answer.raises
    THEN ErrorItem(ticker_symbol, "An error occurred fetching data")
    ELSE IF answer.info = None \/ DOMAIN answer.info = {}
            \/ Get(answer.info, "trailingEps") = None
    THEN ErrorItem(ticker_symbol, "Invalid or delisted ticker")
    ELSE IF Empty(answer.balance_sheet) \/ Empty(answer.income_stmt)
            \/ "Stockholders Equity" \notin DOMAIN answer.balance_sheet[1]
    THEN ErrorItem(ticker_symbol, "Could not fetch complete financial statements")
    ELSE IF Len(answer.balance_sheet) < 2
    THEN ErrorItem(ticker_symbol, "Not enough historical data")
    ELSE ticker_symbol :> BuildData(answer.info, answer.balance_sheet, answer.income_stmt)

----------------------------------------------------------------------------
(* The data provider: the answers a fetch can get *)

\* a column or an info dict: the labels that carry a value
Present(cells) == [k \in {l \in DOMAIN cells : cells[l] # None} |-> cells[k]]

\* a company whose numerator lines are a and whose denominator lines are b (None:
\* the line is not reported); trailingEps and Stockholders Equity, without which the
\* fetch fails, are 1 when b is None
AnswerOf(a, b) ==
    LET req == IF b = None THEN Num(1) ELSE b
    IN [raises |-> FALSE,
        info |-> Present(("trailingEps" :> req) @@ ("ebitda" :> b) @@ ("currentPrice" :> a)
                         @@ ("marketCap" :> a) @@ ("bookValue" :> b)),
        balance_sheet |-> <<
            Present(("Current Assets" :> a) @@ ("Current Liabilities" :> b)
                    @@ ("Inventory" :> Num(1)) @@ ("Total Debt" :> a)
                    @@ ("Stockholders Equity" :> req)
                    @@ ("Cash And Cash Equivalents" :> Num(1)) @@ ("Total Assets" :> b)),
            Present(("Stockholders Equity" :> req) @@ ("Total Assets" :> b)) >>,
        income_stmt |-> <<
            Present(("Total Revenue" :> b) @@ ("Gross Profit" :> a) @@ ("EBIT" :> a)
                    @@ ("Interest Expense" :> b) @@ ("Net Income" :> a)) >>]

\* the fetch raises (network failure, unknown symbol)
Raised == [raises |-> TRUE, info |-> None, balance_sheet |-> <<>>, income_stmt |-> <<>>]

\* a delisted ticker: no trailingEps
Delisted == [AnswerOf(Num(1), Num(1)) EXCEPT !.info = Present("ebitda" :> Num(1))]

\* a company with one reporting period only
OneColumn ==
    [AnswerOf(Num(1), Num(1)) EXCEPT !.balance_sheet = <<AnswerOf(Num(1), Num(1)).balance_sheet[1]>>]

NumeratorValues == {None, Num(0), Num(1), Num(2)}
DenominatorValues == {None, Num(0), Num(1), Num(-1)}

\* the answers of the analysis specification: companies with every line reported, with
\* the numerator or the denominator lines missing, with negative or zero
\* denominators, and a failed fetch
Answers ==
    {AnswerOf(a, b) : a \in {None, Num(1), Num(2)}, b \in {None, Num(1), Num(-1)}}
        \cup {AnswerOf(Num(1), Num(0)), Raised}

\* the answers of the threaded specification: every way a fetch fails, and two companies
FewAnswers ==
    {Raised, Delisted, OneColumn, AnswerOf(Num(2), Num(1)), AnswerOf(Num(1), Num(-1))}

\* the default selection of lines 272-273 names the companies of the model
TICKERS == <<"RELIANCE.NS", "TCS.NS", "INFY.NS", "HDFCBANK.NS">>

SeqsUpTo(S, n) == UNION {[1..k -> S] : k \in 0..n}

----------------------------------------------------------------------------
(* index: the request handler *)

all_tickers == <<ticker>> \o competitor_tickers

\* a value Python takes for true
Truthy(x) == x # None /\ DOMAIN x # {}

\* all_data.update(item)
Update(d, item) == item @@ d

ErrorResult(message) == [error |-> message, details |-> <<>>]

\* lines 282-287: the request names no company, or no competitor
Reject ==
    /\ pc = "post"
    /\ (ticker = "" \/ competitor_tickers = <<>>)
    /\ results' = ErrorResult("Please select a company and at least one competitor.")
    /\ pc' = "done"
    /\ UNCHANGED <<inputs, ticker, competitor_tickers, threads, joined, data_queue,
                   all_data, errors, company_ratios, competitor_ratios_list,
                   benchmarks, analysis_list>>

\* lines 289-292
Accept ==
    /\ pc = "post"
    /\ ~(ticker = "" \/ competitor_tickers = <<>>)
    /\ threads' = [i \in 1..Len(all_tickers) |-> "unstarted"]
    /\ data_queue' = <<>>
    /\ pc' = "start"
    /\ UNCHANGED <<inputs, ticker, competitor_tickers, joined, all_data, errors,
                   company_ratios, competitor_ratios_list, benchmarks, analysis_list,
                   results>>

\* lines 293-296: one iteration of the loop that starts the threads
StartThread ==
    /\ pc = "start"
    /\ LET i == CHOOSE k \in 1..Len(threads) :
                    threads[k] = "unstarted" /\ \A j \in 1..(k - 1) : threads[j] # "unstarted"
       IN /\ threads' = [threads EXCEPT ![i] = "running"]
          /\ pc' = IF i = Len(threads) THEN "join" ELSE "start"
    /\ UNCHANGED <<inputs, ticker, competitor_tickers, joined, data_queue, all_data,
                   errors, company_ratios, competitor_ratios_list, benchmarks,
                   analysis_list, results>>

\* lines 72-114: thread i fetches, puts its one item and ends
RunThread(i) ==
    /\ threads[i] = "running"
    /\ \E answer \in FewAnswers :
          data_queue' = Append(data_queue, get_financial_data(all_tickers[i], answer))
    /\ threads' = [threads EXCEPT ![i] = "done"]
    /\ UNCHANGED <<pc, inputs, ticker, competitor_tickers, joined, all_data, errors,
                   company_ratios, competitor_ratios_list, benchmarks, analysis_list,
                   results>>

\* lines 298-299 with a join that does not wait
JoinThread_not_waiting ==
    /\ pc = "join"
    /\ joined < Len(threads)
    /\ joined' = joined + 1
    /\ UNCHANGED <<pc, inputs, ticker, competitor_tickers, threads, data_queue, all_data,
                   errors, company_ratios, competitor_ratios_list, benchmarks,
                   analysis_list, results>>

\* lines 298-299: thread.join() returns once the thread has ended
JoinThread ==
    /\ pc = "join"
    /\ joined < Len(threads)
    /\ threads[joined + 1] = "done"
    /\ joined' = joined + 1
    /\ UNCHANGED <<pc, inputs, ticker, competitor_tickers, threads, data_queue, all_data,
                   errors, company_ratios, competitor_ratios_list, benchmarks,
                   analysis_list, results>>

\* lines 301-302
Joined ==
    /\ pc = "join"
    /\ joined = Len(threads)
    /\ all_data' = <<>>
    /\ errors' = <<>>
    /\ pc' = "drain"
    /\ UNCHANGED <<inputs, ticker, competitor_tickers, threads, joined, data_queue,
                   company_ratios, competitor_ratios_list, benchmarks, analysis_list,
                   results>>

\* lines 303-306: one iteration of the loop that empties the queue
Drain ==
    /\ pc = "drain"
    /\ data_queue # <<>>
    /\ LET item == Head(data_queue)
       IN /\ errors' = IF Get(item, "error") # None
                       THEN Append(errors, item["error"]) ELSE errors
          /\ all_data' = Update(all_data, item)
    /\ data_queue' = Tail(data_queue)
    /\ UNCHANGED <<pc, inputs, ticker, competitor_tickers, threads, joined,
                   company_ratios, competitor_ratios_list, benchmarks, analysis_list,
                   results>>

\* line 308 without the test for None
MainTickerMissing_key_only == ticker \notin DOMAIN all_data

\* line 308: ticker not in all_data or all_data[ticker] is None
MainTickerMissing ==
    IF ticker \notin DOMAIN all_data THEN TRUE ELSE all_data[ticker] = None

\* lines 308-313
MainTickerFailed ==
    /\ pc = "drain"
    /\ data_queue = <<>>
    /\ MainTickerMissing
    /\ results' = [error |-> "Failed to fetch data for main ticker", details |-> errors]
    /\ pc' = "done"
    /\ UNCHANGED <<inputs, ticker, competitor_tickers, threads, joined, data_queue,
                   all_data, errors, company_ratios, competitor_ratios_list,
                   benchmarks, analysis_list>>

\* lines 315-316
CalcCompany ==
    /\ pc = "drain"
    /\ data_queue = <<>>
    /\ ~MainTickerMissing
    /\ company_ratios' = calculate_ratios(all_data[ticker])
    /\ pc' = "competitors"
    /\ UNCHANGED <<inputs, ticker, competitor_tickers, threads, joined, data_queue,
                   all_data, errors, competitor_ratios_list, benchmarks, analysis_list,
                   results>>

\* [calculate_ratios(all_data[comp]) for comp in competitor_tickers if all_data.get(comp)]
RECURSIVE CompetitorRatios(_, _)
CompetitorRatios(comps, data) ==
    IF comps = <<>> THEN <<>>
    ELSE LET rest == CompetitorRatios(SubSeq(comps, 1, Len(comps) - 1), data)
             comp == comps[Len(comps)]
         IN IF Truthy(Get(data, comp))
            THEN Append(rest, calculate_ratios(data[comp])) ELSE rest

\* line 318
CalcCompetitors ==
    /\ pc = "competitors"
    /\ competitor_ratios_list' = CompetitorRatios(competitor_tickers, all_data)
    /\ pc' = "check"
    /\ UNCHANGED <<inputs, ticker, competitor_tickers, threads, joined, data_queue,
                   all_data, errors, company_ratios, benchmarks, analysis_list, results>>

\* lines 320-325
NoCompetitorData ==
    /\ pc = "check"
    /\ competitor_ratios_list = <<>>
    /\ results' = [error |-> "Could not fetch valid data for any of the competitors",
                   details |-> errors]
    /\ pc' = "done"
    /\ UNCHANGED <<inputs, ticker, competitor_tickers, threads, joined, data_queue,
                   all_data, errors, company_ratios, competitor_ratios_list,
                   benchmarks, analysis_list>>

\* line 327
Benchmark ==
    /\ pc = "check"
    /\ competitor_ratios_list # <<>>
    /\ benchmarks' = calculate_benchmark_averages(competitor_ratios_list)
    /\ pc' = "compare"
    /\ UNCHANGED <<inputs, ticker, competitor_tickers, threads, joined, data_queue,
                   all_data, errors, company_ratios, competitor_ratios_list,
                   analysis_list, results>>

\* ratio_name.replace('_', ' ').title()
Title(ratio_name) ==
    CASE ratio_name = "current_ratio" -> "Current Ratio"
      [] ratio_name = "quick_ratio" -> "Quick Ratio"
      [] ratio_name = "debt_to_equity" -> "Debt To Equity"
      [] ratio_name = "debt_to_assets" -> "Debt To Assets"
      [] ratio_name = "interest_coverage" -> "Interest Coverage"
      [] ratio_name = "gross_profit_margin" -> "Gross Profit Margin"
      [] ratio_name = "net_profit_margin" -> "Net Profit Margin"
      [] ratio_name = "roe" -> "Roe"
      [] ratio_name = "roa" -> "Roa"
      [] ratio_name = "asset_turnover" -> "Asset Turnover"
      [] ratio_name = "pe_ratio" -> "Pe Ratio"
      [] ratio_name = "ev_to_ebitda" -> "Ev To Ebitda"
      [] ratio_name = "price_to_book" -> "Price To Book"

\* line 348 dividing by the benchmark itself
Diff_without_abs(company_value, benchmark_value) ==
    IF ~IsZero(benchmark_value)
    THEN Mul(Div(Sub(company_value, benchmark_value), benchmark_value), Num(100))
    ELSE Num(0)

\* line 348
Diff(company_value, benchmark_value) ==
    IF ~IsZero(benchmark_value)
    THEN Mul(Div(Sub(company_value, benchmark_value), AbsNum(benchmark_value)), Num(100))
    ELSE Num(0)

\* lines 350-358 with a tie counted as good
Verdict_ties_good(direction, company_value, benchmark_value) ==
    IF direction = "None" THEN "Peers"
    ELSE IF (~Less(company_value, benchmark_value) /\ direction = "True")
            \/ (~Greater(company_value, benchmark_value) /\ direction # "True")
    THEN "GOOD"
    ELSE "POOR"

\* lines 350-358: the label of the analysis cell
Verdict(direction, company_value, benchmark_value) ==
    IF direction = "None" THEN "Peers"
    ELSE IF (Greater(company_value, benchmark_value) /\ direction = "True")
            \/ (Less(company_value, benchmark_value) /\ direction # "True")
    THEN "GOOD"
    ELSE "POOR"

\* lines 331-360 with the benchmark looked at before the company's value
Row_benchmark_first(ratio_name, company_value, benchmark_ratios) ==
    LET benchmark_value == DGet(benchmark_ratios, ratio_name)
    IN IF benchmark_value = None
       THEN [ratio_name |-> Title(ratio_name),
             company_value |-> IF company_value = None THEN <<"N/A">> ELSE company_value,
             benchmark_value |-> <<"N/A">>, analysis |-> <<"No benchmark data">>,
             color_class |-> "text-gray-500"]
       ELSE IF company_value = None
       THEN [ratio_name |-> Title(ratio_name), company_value |-> <<"N/A">>,
             benchmark_value |-> <<"-">>, analysis |-> <<"Data missing">>,
             color_class |-> "text-gray-500"]
       ELSE LET direction == HIGHER_IS_BETTER[ratio_name]
                diff == Diff(company_value, benchmark_value)
                verdict == Verdict(direction, company_value, benchmark_value)
            IN [ratio_name |-> Title(ratio_name), company_value |-> company_value,
                benchmark_value |-> benchmark_value,
                analysis |-> <<verdict, diff>>,
                color_class |-> CASE verdict = "Peers" -> "text-blue-600"
                                  [] verdict = "GOOD" -> "text-green-600"
                                  [] verdict = "POOR" -> "text-red-600"]

\* lines 331-360: the row of one ratio; a cell holds the number it renders, or the
\* text in a 1-tuple
Row(ratio_name, company_value, benchmark_ratios) ==
    IF company_value = None
    THEN [ratio_name |-> Title(ratio_name), company_value |-> <<"N/A">>,
          benchmark_value |-> <<"-">>, analysis |-> <<"Data missing">>,
          color_class |-> "text-gray-500"]
    ELSE LET benchmark_value == DGet(benchmark_ratios, ratio_name)
         IN IF benchmark_value = None
            THEN [ratio_name |-> Title(ratio_name), company_value |-> company_value,
                  benchmark_value |-> <<"N/A">>, analysis |-> <<"No benchmark data">>,
                  color_class |-> "text-gray-500"]
            ELSE LET direction == HIGHER_IS_BETTER[ratio_name]
                     diff == Diff(company_value, benchmark_value)
                     verdict == Verdict(direction, company_value, benchmark_value)
                 IN [ratio_name |-> Title(ratio_name), company_value |-> company_value,
                     benchmark_value |-> benchmark_value,
                     analysis |-> <<verdict, diff>>,
                     color_class |-> CASE verdict = "Peers" -> "text-blue-600"
                                       [] verdict = "GOOD" -> "text-green-600"
                                       [] verdict = "POOR" -> "text-red-600"]

\* lines 329-360 leaving out the rows of the ratios without a value
Analysis_skipping_missing(ratios, benchmark_ratios) ==
    LET valued == SelectSeq(ratios, LAMBDA item : item[2] # None)
    IN [i \in 1..Len(valued) |-> Row(valued[i][1], valued[i][2], benchmark_ratios)]

\* lines 329-360: for ratio_name, company_value in company_ratios.items()
Analysis(ratios, benchmark_ratios) ==
    [i \in 1..Len(ratios) |-> Row(ratios[i][1], ratios[i][2], benchmark_ratios)]

\* lines 329-366
Compare ==
    /\ pc = "compare"
    /\ analysis_list' = Analysis(company_ratios, benchmarks)
    /\ results' = [ticker |-> ticker, competitors |-> competitor_tickers,
                   analysis |-> analysis_list']
    /\ pc' = "done"
    /\ UNCHANGED <<inputs, ticker, competitor_tickers, threads, joined, data_queue,
                   all_data, errors, company_ratios, competitor_ratios_list,
                   benchmarks>>

\* what a variable holds before the code assigns it: a list, or a dict
Unset == << <<"unset">> >>
Unassigned == [unassigned |-> TRUE]

\* a POST request arrives
Init ==
    /\ pc = "post"
    /\ inputs = <<>>
    /\ ticker \in {"", TICKERS[1]}
    /\ competitor_tickers \in SeqsUpTo({TICKERS[1], TICKERS[2]}, MaxPeers)
    /\ threads = <<>>
    /\ joined = 0
    /\ data_queue = <<>>
    /\ all_data = Unassigned
    /\ errors = Unset
    /\ company_ratios = Unset
    /\ competitor_ratios_list = Unset
    /\ benchmarks = Unset
    /\ analysis_list = Unset
    /\ results = Unassigned

Threads == \E i \in 1..Len(threads) : RunThread(i)

Collect == Reject \/ Accept \/ StartThread \/ Threads \/ JoinThread \/ Joined \/ Drain

Analyse ==
    \/ MainTickerFailed
    \/ CalcCompany
    \/ CalcCompetitors
    \/ NoCompetitorData
    \/ Benchmark
    \/ Compare

Next == Collect \/ Analyse

Spec == Init /\ [][Next]_vars

----------------------------------------------------------------------------
(* The analysis of lines 308-366 alone, from the state in which the queue has been
   emptied, over a wider range of answers *)

\* all_data and errors once the items have gone through lines 303-306
RECURSIVE Collected(_)
Collected(items) ==
    IF items = <<>> THEN [all_data |-> <<>>, errors |-> <<>>]
    ELSE LET before == Collected(SubSeq(items, 1, Len(items) - 1))
             item == items[Len(items)]
         IN [all_data |-> Update(before.all_data, item),
             errors |-> IF Get(item, "error") # None
                        THEN Append(before.errors, item["error"]) ELSE before.errors]

InitCollected ==
    /\ pc = "drain"
    /\ inputs = <<>>
    /\ ticker = TICKERS[1]
    /\ \E n \in 1..MaxPeers : competitor_tickers = SubSeq(TICKERS, 2, n + 1)
    /\ threads = [i \in 1..Len(all_tickers) |-> "done"]
    /\ joined = Len(all_tickers)
    /\ data_queue = <<>>
    /\ \E answers \in [1..Len(all_tickers) -> Answers] :
          LET items == [i \in 1..Len(all_tickers) |->
                            get_financial_data(all_tickers[i], answers[i])]
          IN /\ all_data = Collected(items).all_data
             /\ errors = Collected(items).errors
    /\ company_ratios = Unset
    /\ competitor_ratios_list = Unset
    /\ benchmarks = Unset
    /\ analysis_list = Unset
    /\ results = Unassigned

SpecAnalysis == InitCollected /\ [][Analyse]_vars

----------------------------------------------------------------------------
(* calculate_ratios and calculate_benchmark_averages as functions of their argument *)

\* a data dict: the numerator fields are a, the denominator fields b, the fields a
\* ratio reads besides its numerator and denominator c, and market_cap d, so that
\* the fields one ratio reads vary independently
DataOf(a, b, c, d) ==
    [current_assets |-> a, current_liabilities |-> b, inventory |-> c, total_debt |-> a,
     total_equity |-> b, cash |-> c, total_assets |-> b, total_revenue |-> b,
     gross_profit |-> a, ebit |-> a, ebitda |-> b, interest_expense |-> b,
     net_income |-> a, avg_total_assets |-> c, avg_total_equity |-> b,
     current_share_price |-> a, eps |-> b, market_cap |-> d, book_value_per_share |-> b]

FieldValues == {None, Num(-1), Num(0), Num(1), Num(2)}

\* the arguments of calculate_ratios: no data, or a dict
DataDicts ==
    {None} \cup {DataOf(a, b, c, d) : a \in FieldValues, b \in FieldValues,
                                      c \in FieldValues, d \in FieldValues}

\* the entities of a peer list
PeerData ==
    {None} \cup {DataOf(a, b, Num(1), a) : a \in NumeratorValues, b \in DenominatorValues}

InitFn ==
    /\ pc = "data"
    /\ inputs \in SeqsUpTo(PeerData, MaxPeers) \cup {<<d>> : d \in DataDicts}
    /\ ticker = ""
    /\ competitor_tickers = <<>>
    /\ threads = <<>>
    /\ joined = 0
    /\ data_queue = <<>>
    /\ all_data = Unassigned
    /\ errors = Unset
    /\ company_ratios = Unset
    /\ competitor_ratios_list = Unset
    /\ benchmarks = Unset
    /\ analysis_list = Unset
    /\ results = Unassigned

\* calculate_ratios on every entity
Calculate ==
    /\ pc = "data"
    /\ competitor_ratios_list' = [i \in 1..Len(inputs) |-> calculate_ratios(inputs[i])]
    /\ pc' = "ratios"
    /\ UNCHANGED <<inputs, ticker, competitor_tickers, threads, joined, data_queue,
                   all_data, errors, company_ratios, benchmarks, analysis_list, results>>

\* calculate_benchmark_averages on the list of their ratio dicts
Average ==
    /\ pc = "ratios"
    /\ benchmarks' = calculate_benchmark_averages(competitor_ratios_list)
    /\ pc' = "averaged"
    /\ UNCHANGED <<inputs, ticker, competitor_tickers, threads, joined, data_queue,
                   all_data, errors, company_ratios, competitor_ratios_list,
                   analysis_list, results>>

NextFn == Calculate \/ Average

SpecFn == InitFn /\ [][NextFn]_vars

----------------------------------------------------------------------------
(* Properties *)

\* the thirteen ratio identifiers, in the canonical order
RATIO_NAMES ==
    <<"current_ratio", "quick_ratio", "debt_to_equity", "debt_to_assets",
      "interest_coverage", "gross_profit_margin", "net_profit_margin", "roe", "roa",
      "asset_turnover", "pe_ratio", "ev_to_ebitda", "price_to_book">>

\* the field of the data dict that is the denominator of a ratio
DenominatorField ==
    [current_ratio |-> "current_liabilities", quick_ratio |-> "current_liabilities",
     debt_to_equity |-> "total_equity", debt_to_assets |-> "total_assets",
     interest_coverage |-> "interest_expense", gross_profit_margin |-> "total_revenue",
     net_profit_margin |-> "total_revenue", roe |-> "avg_total_equity",
     roa |-> "avg_total_assets", asset_turnover |-> "avg_total_assets",
     pe_ratio |-> "eps", ev_to_ebitda |-> "ebitda",
     price_to_book |-> "book_value_per_share"]

AbsentOrZero(x) == x = None \/ (IsNumber(x) /\ IsZero(x))

\* a finite number in lowest terms
Finite(x) == IsNumber(x) /\ Len(x) = 2 /\ x[2] > 0

RatiosCalculated == pc \in {"ratios", "averaged"}

\* C1: whatever the data dict (fields absent, zero or negative, or no dict at all),
\* calculate_ratios returns a dict and raises nothing; a ratio whose denominator field
\* is absent or zero is None in it, and every other value is None or a finite number
C1_UndefinedOnAbsentOrZeroDenominator ==
    RatiosCalculated =>
        \A i \in 1..Len(inputs) :
            /\ ~IsError(competitor_ratios_list[i])
            /\ \A k \in 1..Len(competitor_ratios_list[i]) :
                  LET value == competitor_ratios_list[i][k][2]
                  IN value = None \/ Finite(value)
            /\ \A r \in Range(RATIO_NAMES) :
                  AbsentOrZero(Get(inputs[i], DenominatorField[r]))
                      => DGet(competitor_ratios_list[i], r) = None

\* a dict with negative numerators, zero denominators and an absent field has gone
\* through calculate_ratios, and its ratios over the zero denominators are None
C1_Witness ==
    /\ pc = "ratios"
    /\ \E i \in 1..Len(inputs) :
          /\ inputs[i] # None
          /\ inputs[i].current_assets = Num(-1)
          /\ inputs[i].current_liabilities = Num(0)
          /\ inputs[i].inventory = None
          /\ DGet(competitor_ratios_list[i], "current_ratio") = None
          /\ DGet(competitor_ratios_list[i], "quick_ratio") = None
          /\ Len(competitor_ratios_list[i]) = 13

BenchmarkCalculated == pc = "averaged"

\* C2 as the spec states it: every dict calculate_ratios or
\* calculate_benchmark_averages returns has exactly the thirteen ratio identifiers as
\* keys, also for absent data and for the empty peer list
C2_AlwaysThirteenKeys ==
    /\ RatiosCalculated =>
          \A i \in 1..Len(inputs) : Keys(competitor_ratios_list[i]) = RATIO_NAMES
    /\ BenchmarkCalculated => Keys(benchmarks) = RATIO_NAMES

\* C2 amended: a dict returned by calculate_ratios has the thirteen identifiers as
\* keys, in the canonical order, unless the data is absent or empty, and then it has
\* no key at all; a dict returned by calculate_benchmark_averages has the keys of the
\* first peer's dict, so none for the empty list or an empty first dict, and the
\* thirteen otherwise; a ratio looked up in a dict without keys is None
C2_ThirteenKeysOrNone ==
    /\ RatiosCalculated =>
          \A i \in 1..Len(inputs) :
              Keys(competitor_ratios_list[i]) =
                  IF inputs[i] = None \/ DOMAIN inputs[i] = {} THEN <<>> ELSE RATIO_NAMES
    /\ BenchmarkCalculated =>
          /\ Keys(benchmarks) =
                 IF inputs = <<>> \/ inputs[1] = None \/ DOMAIN inputs[1] = {}
                 THEN <<>> ELSE RATIO_NAMES
          /\ Keys(benchmarks) = <<>> =>
                 \A r \in Range(RATIO_NAMES) : DGet(benchmarks, r) = None

\* a peer list of a company with data followed by one without has been averaged: the
\* second dict has no keys, the benchmark the thirteen
C2_Witness ==
    /\ pc = "averaged"
    /\ Len(inputs) = 2
    /\ inputs[1] # None
    /\ inputs[2] = None
    /\ competitor_ratios_list[2] = <<>>
    /\ Len(benchmarks) = 13

Injective(p) == \A i, j \in DOMAIN p : p[i] = p[j] => i = j

\* the reorderings of a list
Reorderings(list) ==
    {[i \in 1..Len(list) |-> list[p[i]]] :
        p \in {q \in [1..Len(list) -> 1..Len(list)] : Injective(q)}}

\* C3: the benchmark of a peer list is the benchmark of every reordering of it
C3_PermutationInvariant ==
    BenchmarkCalculated =>
        \A reordered \in Reorderings(competitor_ratios_list) :
            calculate_benchmark_averages(reordered) = benchmarks

\* the sum of the values of ratio name over the peers whose index is in S
RECURSIVE SumAt(_, _, _)
SumAt(list, name, S) ==
    IF S = {} THEN Num(0)
    ELSE LET i == CHOOSE j \in S : TRUE
         IN Add(DGet(list[i], name), SumAt(list, name, S \ {i}))

NeutralRatios == {"pe_ratio", "ev_to_ebitda", "price_to_book"}
LowerIsBetterRatios == {"debt_to_equity", "debt_to_assets"}
HigherIsBetterRatios == Range(RATIO_NAMES) \ (NeutralRatios \cup LowerIsBetterRatios)

\* the ratio a row of the analysis is about, its target value and its benchmark
RatioOf(row) == CHOOSE r \in Range(RATIO_NAMES) : Title(r) = row.ratio_name
TargetOf(row) == DGet(company_ratios, RatioOf(row))
BenchmarkOf(row) == DGet(benchmarks, RatioOf(row))

BothDefined(row) == TargetOf(row) # None /\ BenchmarkOf(row) # None

\* C5: with target and benchmark defined, a neutral ratio is Neutral ("Peers"), a
\* higher-is-better ratio GOOD iff target > benchmark and POOR otherwise, a
\* lower-is-better ratio GOOD iff target < benchmark and POOR otherwise
C5_VerdictByPolicyAndOrder ==
    analysis_list # Unset =>
        \A i \in 1..Len(analysis_list) :
            LET row == analysis_list[i]
                t == TargetOf(row)
                b == BenchmarkOf(row)
                verdict == row.analysis[1]
            IN BothDefined(row) =>
                  /\ verdict \in {"Peers", "GOOD", "POOR"}
                  /\ RatioOf(row) \in NeutralRatios => verdict = "Peers"
                  /\ RatioOf(row) \in HigherIsBetterRatios =>
                        verdict = IF Greater(t, b) THEN "GOOD" ELSE "POOR"
                  /\ RatioOf(row) \in LowerIsBetterRatios =>
                        verdict = IF Less(t, b) THEN "GOOD" ELSE "POOR"

\* an analysis with a tie on a higher-is-better ratio (POOR), a lower-is-better ratio
\* below its benchmark (GOOD) and a neutral ratio off its benchmark (Peers)
C5_Witness ==
    /\ analysis_list # Unset
    /\ \E i, j, k \in 1..Len(analysis_list) :
          /\ BothDefined(analysis_list[i])
          /\ BothDefined(analysis_list[j])
          /\ BothDefined(analysis_list[k])
          /\ RatioOf(analysis_list[i]) \in HigherIsBetterRatios
          /\ TargetOf(analysis_list[i]) = BenchmarkOf(analysis_list[i])
          /\ analysis_list[i].analysis[1] = "POOR"
          /\ RatioOf(analysis_list[j]) \in LowerIsBetterRatios
          /\ Less(TargetOf(analysis_list[j]), BenchmarkOf(analysis_list[j]))
          /\ analysis_list[j].analysis[1] = "GOOD"
          /\ RatioOf(analysis_list[k]) \in NeutralRatios
          /\ TargetOf(analysis_list[k]) # BenchmarkOf(analysis_list[k])
          /\ analysis_list[k].analysis[1] = "Peers"

\* C6: a row whose target value is None is "Data missing" with the benchmark cell "-"
\* and no deviation, whatever the benchmark; otherwise a row whose benchmark is None
\* is "No benchmark data" with no deviation; GOOD, POOR and Peers come with both
C6_MissingDataPrecedence ==
    analysis_list # Unset =>
        \A i \in 1..Len(analysis_list) :
            LET row == analysis_list[i]
            IN /\ TargetOf(row) = None =>
                     /\ row.analysis = <<"Data missing">>
                     /\ row.benchmark_value = <<"-">>
                     /\ row.company_value = <<"N/A">>
               /\ (TargetOf(row) # None /\ BenchmarkOf(row) = None) =>
                     /\ row.analysis = <<"No benchmark data">>
                     /\ row.benchmark_value = <<"N/A">>
                     /\ row.company_value = TargetOf(row)
               /\ row.analysis[1] \in {"GOOD", "POOR", "Peers"} <=> BothDefined(row)

\* an analysis with a row whose target is None and whose benchmark is defined, a row
\* with neither, and a row whose target is defined and whose benchmark is None
C6_Witness ==
    /\ analysis_list # Unset
    /\ \E i, j, k \in 1..Len(analysis_list) :
          /\ TargetOf(analysis_list[i]) = None /\ BenchmarkOf(analysis_list[i]) # None
          /\ analysis_list[i].analysis = <<"Data missing">>
          /\ TargetOf(analysis_list[j]) = None /\ BenchmarkOf(analysis_list[j]) = None
          /\ TargetOf(analysis_list[k]) # None /\ BenchmarkOf(analysis_list[k]) = None
          /\ analysis_list[k].analysis = <<"No benchmark data">>

\* C7: the analysis has one row per ratio of the canonical thirteen, in the canonical
\* order, however many values are None
C7_CanonicalRows ==
    analysis_list # Unset =>
        [i \in 1..Len(analysis_list) |-> analysis_list[i].ratio_name]
            = [i \in 1..Len(RATIO_NAMES) |-> Title(RATIO_NAMES[i])]

\* an analysis of thirteen rows of which some are "Data missing" and some "No
\* benchmark data"
C7_Witness ==
    /\ analysis_list # Unset
    /\ Len(analysis_list) = 13
    /\ \E i, j \in 1..Len(analysis_list) :
          /\ analysis_list[i].analysis = <<"Data missing">>
          /\ analysis_list[j].analysis = <<"No benchmark data">>
    /\ results.analysis = analysis_list

Sign(x) == IF x[1] > 0 THEN 1 ELSE IF x[1] < 0 THEN -1 ELSE 0

\* C10: with target t and benchmark b defined, the deviation d is 0 when b is zero
\* (the verdict still follows the order of t and b), and otherwise d * |b| =
\* (t - b) * 100, so that d has the sign of t - b; t = 2 and b = 1 give 100
C10_Deviation ==
    analysis_list # Unset =>
        \A i \in 1..Len(analysis_list) :
            LET row == analysis_list[i]
                t == TargetOf(row)
                b == BenchmarkOf(row)
                d == row.analysis[2]
            IN BothDefined(row) =>
                  /\ Len(row.analysis) = 2
                  /\ Finite(d)
                  /\ IsZero(b) =>
                        /\ d = Num(0)
                        /\ RatioOf(row) \in HigherIsBetterRatios =>
                              (row.analysis[1] = "GOOD" <=> Greater(t, b))
                        /\ RatioOf(row) \in LowerIsBetterRatios =>
                              (row.analysis[1] = "GOOD" <=> Less(t, b))
                  /\ ~IsZero(b) =>
                        /\ Mul(d, AbsNum(b)) = Mul(Sub(t, b), Num(100))
                        /\ Sign(d) = Sign(Sub(t, b))
                  /\ (t = Num(2) /\ b = Num(1)) => d = Num(100)
                  /\ t = b => d = Num(0)

\* an analysis with a row above a negative benchmark, a row whose benchmark is zero
\* and whose target is not, and a row with target 2 and benchmark 1
C10_Witness ==
    /\ analysis_list # Unset
    /\ \E i, j \in 1..Len(analysis_list) :
          /\ BothDefined(analysis_list[i]) /\ BothDefined(analysis_list[j])
          /\ BenchmarkOf(analysis_list[i])[1] < 0
          /\ Greater(TargetOf(analysis_list[i]), BenchmarkOf(analysis_list[i]))
          /\ analysis_list[i].analysis[2][1] > 0
          /\ IsZero(BenchmarkOf(analysis_list[j]))
          /\ ~IsZero(TargetOf(analysis_list[j]))
          /\ analysis_list[j].analysis[2] = Num(0)

\* the threads that have ended
Done == {i \in 1..Len(threads) : threads[i] = "done"}

\* the ticker an item of the queue is about
TickerOf(item) == CHOOSE t \in DOMAIN item : t # "error"

AnalysisStarted ==
    \/ pc \in {"competitors", "check", "compare"}
    \/ company_ratios # Unset
    \/ competitor_ratios_list # Unset
    \/ benchmarks # Unset
    \/ analysis_list # Unset

\* C8: while the threads run, each thread that has ended has put exactly one item,
\* for its ticker, into the queue; no ratio is calculated and no benchmark averaged
\* before every thread has ended and the queue has been emptied into all_data, which
\* then holds a result for every requested ticker; the comparison starts only with
\* the company's ratios and the benchmark of all the usable peers computed
C8_TwoStageBarrier ==
    /\ pc \in {"start", "join"} =>
          \A t \in Range(all_tickers) :
              Cardinality({k \in 1..Len(data_queue) : TickerOf(data_queue[k]) = t})
                  = Cardinality({i \in Done : all_tickers[i] = t})
    /\ AnalysisStarted =>
          /\ Len(threads) = Len(all_tickers)
          /\ Done = 1..Len(threads)
          /\ data_queue = <<>>
          /\ \A t \in Range(all_tickers) : t \in DOMAIN all_data
    /\ (pc = "compare" \/ analysis_list # Unset) =>
          /\ company_ratios = calculate_ratios(all_data[ticker])
          /\ Len(competitor_ratios_list)
                 = Cardinality({k \in 1..Len(competitor_tickers) :
                                    all_data[competitor_tickers[k]] # None})
          /\ benchmarks = calculate_benchmark_averages(competitor_ratios_list)

\* the comparison is about to start for a request with two different competitors, the
\* fetch of the first of which failed
C8_Witness ==
    /\ pc = "compare"
    /\ Len(threads) = 3
    /\ errors # <<>>
    /\ competitor_tickers[1] # competitor_tickers[2]
    /\ all_data[competitor_tickers[1]] = None
    /\ Len(competitor_ratios_list) = 1

Rejected == ticker = "" \/ competitor_tickers = <<>>

IsErrorResult(result) == "error" \in DOMAIN result
IsAnalysis(result) == "analysis" \in DOMAIN result

\* every fetch of ticker t failed: each thread for t has left an error message
AllFetchesFailed(t) ==
    Cardinality({k \in 1..Len(errors) : errors[k][2] = t})
        = Cardinality({i \in 1..Len(all_tickers) : all_tickers[i] = t})

\* C9: a request without a company or without competitors is answered with an error
\* and no thread is ever started for it; when every fetch of the company failed the
\* answer is an error; when every fetch of every competitor failed the answer is an
\* error; an error comes with no benchmark and no analysis; and an analysis is
\* produced exactly when the data collected for the company and for at least one
\* competitor is usable
C9_RequestLevelFailures ==
    /\ Rejected =>
          /\ threads = <<>> /\ data_queue = <<>> /\ all_data = Unassigned
          /\ pc = "done" =>
                results = ErrorResult("Please select a company and at least one competitor.")
    /\ (pc = "done" /\ ~Rejected) =>
          /\ AllFetchesFailed(ticker) =>
                /\ IsErrorResult(results)
                /\ results.error = "Failed to fetch data for main ticker"
          /\ (\A k \in 1..Len(competitor_tickers) : AllFetchesFailed(competitor_tickers[k]))
                => IsErrorResult(results)
          /\ (all_data[ticker] # None
                /\ \A k \in 1..Len(competitor_tickers) : all_data[competitor_tickers[k]] = None)
                => /\ IsErrorResult(results)
                   /\ results.error = "Could not fetch valid data for any of the competitors"
          /\ IsAnalysis(results) <=>
                /\ all_data[ticker] # None
                /\ \E k \in 1..Len(competitor_tickers) : all_data[competitor_tickers[k]] # None
          /\ IsAnalysis(results) =>
                /\ ~AllFetchesFailed(ticker)
                /\ \E k \in 1..Len(competitor_tickers) :
                      ~AllFetchesFailed(competitor_tickers[k])
          /\ IsErrorResult(results) <=> ~IsAnalysis(results)
    /\ IsErrorResult(results) => benchmarks = Unset /\ analysis_list = Unset
    /\ (benchmarks # Unset \/ analysis_list # Unset) =>
          /\ all_data[ticker] # None
          /\ \E k \in 1..Len(competitor_tickers) : all_data[competitor_tickers[k]] # None

\* the company's data was fetched, the fetches of both competitors failed, and the
\* handler has answered that no benchmark can be made
C9_Witness ==
    /\ pc = "done"
    /\ ~Rejected
    /\ Len(competitor_tickers) = 2
    /\ ticker \notin Range(competitor_tickers)
    /\ all_data[ticker] # None
    /\ Len(errors) = 2
    /\ IsErrorResult(results)
    /\ results.error = "Could not fetch valid data for any of the competitors"
    /\ benchmarks = Unset

\* the order in which the threads have put their items is the order of the queue when
\* the loop of lines 303-306 starts: every thread has ended, nothing has been taken
QueueComplete ==
    /\ pc = "drain"
    /\ all_data = <<>>
    /\ errors = <<>>
    /\ Len(data_queue) = Len(all_tickers)

\* what lines 308-325 make of a mapping: the error of the request, or the company's
\* ratios and the list of the peers' ratios that enter the benchmark
OutcomeOf(data) ==
    IF (IF ticker \notin DOMAIN data THEN TRUE ELSE data[ticker] = None)
    THEN [error |-> "Failed to fetch data for main ticker", company |-> <<>>, peers |-> <<>>]
    ELSE IF CompetitorRatios(competitor_tickers, data) = <<>>
    THEN [error |-> "Could not fetch valid data for any of the competitors",
          company |-> <<>>, peers |-> <<>>]
    ELSE [error |-> "", company |-> calculate_ratios(data[ticker]),
          peers |-> CompetitorRatios(competitor_tickers, data)]

\* C11: for every request, the tickers of which need not be distinct, and every order
\* in which the threads put their items into the queue, emptying the queue with
\* all_data.update gives the same mapping all_data, and therefore the same outcome of
\* the handler (which error, or which peers enter the benchmark)
C11_OrderIndependentCollection ==
    QueueComplete =>
        \A other \in Reorderings(data_queue) :
            /\ Collected(other).all_data = Collected(data_queue).all_data
            /\ OutcomeOf(Collected(other).all_data) = OutcomeOf(Collected(data_queue).all_data)

====
